---------------------------- MODULE Spec2Model ----------------------------
(***************************************************************************)
(* HR Candidate Review Tool backend (src/backend/main.py over the          *)
(* Candidate table of src/backend/database.py).                            *)
(*                                                                         *)
(* The committed candidate table is the state.  Every HTTP handler is one  *)
(* action: it reads its inputs from small sets, runs the handler's code    *)
(* against the table and leaves the request in `req` and the answer        *)
(* (status code, body, raised exception) in `resp`.                        *)
(*                                                                         *)
(* Conventions.  Python strings are TLA+ strings.  An Optional value is a  *)
(* sequence: <<>> is None / an absent key, <<v>> is the value v.  A        *)
(* datetime is <<year, month, day, tod>> with tod the time of day (0 is    *)
(* midnight).  A rating is held in tenths (45 is 4.5).                     *)
(*                                                                         *)
(* `sessions` holds the requests that run side by side, one session each,  *)
(* where the writing handlers are taken statement by statement             *)
(* (SpecSession); the other specifications leave it alone.                 *)
(***************************************************************************)
EXTENDS Integers, Sequences, FiniteSets, TLC

VARIABLES store, req, resp, sessions

vars == <<store, req, resp, sessions>>

None == <<>>

Some(v) == <<v>>

-----------------------------------------------------------------------------
(* Bounds of the model.                                                    *)

\* Largest number of rows the table holds.
MaxStore == 2

\* Largest number of descriptors in one uploaded file.
MaxBatch == 2

\* Largest number of rows of the tables all endpoints are run on together.
MaxFrameStore == 1

\* Number of requests that may be in progress at once, each in its own session.
MaxSessions == 2

-----------------------------------------------------------------------------
(* Program constants.                                                      *)

STAGES == {"Screening", "Design Challenge", "Interview", "HR Round", "Hired", "Rejected"}

STATUSES == {"Pending", "In Process", "Selected", "Rejected", "Accepted"}

SORT_FIELDS == {"name", "application_date", "rating"}

DEFAULT_SORT == "application_date"

\* datetime.MINYEAR and datetime.MAXYEAR, the years datetime() accepts.
MINYEAR == 1

MAXYEAR == 9999

\* The years and months the month_year guard of filter_candidates lets through.
MinFilterYear == 1900

MaxFilterYear == 9999

-----------------------------------------------------------------------------
(* Strings.                                                                *)

\* The printable ASCII characters in code point order (the double quote, the
\* backslash and the grave accent left out: no string of the model holds them).
Alphabet ==
    " !#$%&'()*+,-./0123456789:;<=>?@ABCDEFGHIJKLMNOPQRSTUVWXYZ[]^_abcdefghijklmnopqrstuvwxyz{|}~"

Ord(c) == CHOOSE i \in 1..Len(Alphabet) : SubSeq(Alphabet, i, i) = c

Uppers == "ABCDEFGHIJKLMNOPQRSTUVWXYZ"

Lowers == "abcdefghijklmnopqrstuvwxyz"

\* str.lower() / SQLite lower() on one character.
LowerChar(c) ==
    IF \E i \in 1..Len(Uppers) : SubSeq(Uppers, i, i) = c
    THEN LET i == CHOOSE j \in 1..Len(Uppers) : SubSeq(Uppers, j, j) = c
         IN  SubSeq(Lowers, i, i)
    ELSE c

RECURSIVE Lower(_)
Lower(s) == IF s = "" THEN "" ELSE LowerChar(Head(s)) \o Lower(Tail(s))

\* s < t in code point order (Python str comparison, SQLite BINARY collation).
RECURSIVE StrLess(_, _)
StrLess(s, t) ==
    IF t = "" THEN FALSE
    ELSE IF s = "" THEN TRUE
    ELSE IF Head(s) = Head(t) THEN StrLess(Tail(s), Tail(t))
    ELSE Ord(Head(s)) < Ord(Head(t))

StrLeq(s, t) == s = t \/ StrLess(s, t)

\* str.replace(old, new) for a one-character old.
RECURSIVE Replace(_, _, _)
Replace(s, old, new) ==
    IF s = "" THEN ""
    ELSE (IF Head(s) = old THEN new ELSE Head(s)) \o Replace(Tail(s), old, new)

\* str.split(sep) for a one-character separator: the list of parts.
RECURSIVE SplitFrom(_, _, _)
SplitFrom(s, sep, cur) ==
    IF s = "" THEN <<cur>>
    ELSE IF Head(s) = sep THEN <<cur>> \o SplitFrom(Tail(s), sep, "")
    ELSE SplitFrom(Tail(s), sep, cur \o Head(s))

Split(s, sep) == SplitFrom(s, sep, "")

\* t occurs in s as a contiguous substring.
Contains(s, t) ==
    \E i \in 0..(Len(s) - Len(t)) : SubSeq(s, i + 1, i + Len(t)) = t

-----------------------------------------------------------------------------
(* Integers and datetimes.                                                 *)

Digits == "0123456789"

IsDigit(c) == \E i \in 1..10 : SubSeq(Digits, i, i) = c

DigitVal(c) == (CHOOSE i \in 1..10 : SubSeq(Digits, i, i) = c) - 1

\* str.strip() of the blanks at both ends.
RECURSIVE LStrip(_)
LStrip(s) == IF s # "" /\ Head(s) = " " THEN LStrip(Tail(s)) ELSE s

RECURSIVE RStrip(_)
RStrip(s) ==
    IF s # "" /\ SubSeq(s, Len(s), Len(s)) = " "
    THEN RStrip(SubSeq(s, 1, Len(s) - 1))
    ELSE s

Strip(s) == RStrip(LStrip(s))

\* The digits of an int literal: digits, single underscores between them only.
RECURSIVE DigitsOk(_, _)
DigitsOk(s, prevDigit) ==
    IF s = "" THEN prevDigit
    ELSE IF IsDigit(Head(s)) THEN DigitsOk(Tail(s), TRUE)
    ELSE Head(s) = "_" /\ prevDigit /\ DigitsOk(Tail(s), FALSE)

RECURSIVE DigitsValue(_, _)
DigitsValue(s, acc) ==
    IF s = "" THEN acc
    ELSE IF Head(s) = "_" THEN DigitsValue(Tail(s), acc)
    ELSE DigitsValue(Tail(s), 10 * acc + DigitVal(Head(s)))

\* int(s) of a str: blanks stripped, an optional sign, then the digits.
\* [ok |-> FALSE] is ValueError.
ParseInt(s) ==
    LET t    == Strip(s)
        neg  == t # "" /\ Head(t) = "-"
        sgn  == t # "" /\ (Head(t) = "-" \/ Head(t) = "+")
        body == IF sgn THEN Tail(t) ELSE t
    IN  IF DigitsOk(body, FALSE)
        THEN [ok |-> TRUE,
              v  |-> IF neg THEN 0 - DigitsValue(body, 0) ELSE DigitsValue(body, 0)]
        ELSE [ok |-> FALSE, v |-> 0]

\* datetime(year, month, day): ValueError ([ok |-> FALSE]) outside its ranges.
Datetime(year, month, day) ==
    IF MINYEAR <= year /\ year <= MAXYEAR /\ 1 <= month /\ month <= 12
       /\ 1 <= day /\ day <= 31
    THEN [ok |-> TRUE, v |-> <<year, month, day, 0>>]
    ELSE [ok |-> FALSE, v |-> <<0, 0, 0, 0>>]

\* a < b on datetimes; the table compares their fixed-width ISO text, which
\* orders as the fields do.
DateLess(a, b) ==
    \/ a[1] < b[1]
    \/ a[1] = b[1] /\ a[2] < b[2]
    \/ a[1] = b[1] /\ a[2] = b[2] /\ a[3] < b[3]
    \/ a[1] = b[1] /\ a[2] = b[2] /\ a[3] = b[3] /\ a[4] < b[4]

DateLeq(a, b) == a = b \/ DateLess(a, b)

\* What datetime.utcnow may return when a row is inserted.
ClockValues == { <<2024, 12, 1, 0>>, <<2025, 1, 1, 0>> }

-----------------------------------------------------------------------------
(* JSON values and JSON text.                                              *)

JStr(s) == [t |-> "str", s |-> s, n |-> 0]

JNum(n) == [t |-> "num", s |-> "", n |-> n]

\* json.dumps of a dict, held as its entries in insertion order; the text of a
\* non-empty dict is never the empty string.
JsonDumps(entries) == [kind |-> "json", doc |-> entries]

\* json.loads: the document of a JSON text; [ok |-> FALSE] is JSONDecodeError.
JsonLoads(text) ==
    IF text.kind = "json" THEN [ok |-> TRUE, doc |-> text.doc]
    ELSE [ok |-> FALSE, doc |-> <<>>]

-----------------------------------------------------------------------------
(* The Candidate table and the uploaded descriptors.                       *)

\* The columns the Candidate model declares: the attributes a row has.
CandidateColumns ==
    {"id", "name", "email", "phone", "status", "applied_role", "experience",
     "application_date", "urls", "rating", "stage", "location", "attachments"}

\* Whether reading candidate.<attr> succeeds; it raises AttributeError otherwise.
HasAttr(attr) == attr \in CandidateColumns

\* The keys import_candidates reads with candidate_data[...], in that order.
RequiredKeys == <<"name", "email", "phone", "applied_role", "experience">>

\* A descriptor with the five required keys and nothing else.
BaseDescriptor(name, email, role) ==
    [name |-> Some(name), email |-> Some(email), phone |-> Some("5"),
     applied_role |-> Some(role), experience |-> Some("3y"),
     status |-> None, stage |-> None, rating |-> None, location |-> None,
     resume_url |-> None, cover_letter_url |-> None, project_url |-> None]

\* The descriptors an uploaded file is made of.
Descriptors ==
    { [BaseDescriptor("Ab", "a@x", "Dev") EXCEPT
          !.resume_url = Some(JStr("r&1"))],
      [BaseDescriptor("a b", "b@x", "QA") EXCEPT
          !.status = Some("Selected"), !.stage = Some("Hired"),
          !.rating = Some(45), !.location = Some("Pune"),
          !.resume_url = Some(JNum(5)), !.cover_letter_url = Some(JStr("c<2>"))],
      [BaseDescriptor("B", "c@x", "Dev") EXCEPT
          !.stage = Some("Onsite"),
          !.rating = Some(45), !.location = Some("pune")],
      [BaseDescriptor("B", "a@x", "QA") EXCEPT
          !.status = Some("Rejected"), !.stage = Some("Rejected"),
          !.rating = Some(20)],
      [BaseDescriptor("Ab", "c@x", "Dev") EXCEPT !.email = None] }

\* The first required key a descriptor lacks, "" when it has them all.
MissingKey(d) ==
    IF \A i \in 1..Len(RequiredKeys) : d[RequiredKeys[i]] # None THEN ""
    ELSE RequiredKeys[CHOOSE i \in 1..Len(RequiredKeys) :
                         /\ d[RequiredKeys[i]] = None
                         /\ \A j \in 1..(i - 1) : d[RequiredKeys[j]] # None]

\* dict.get(key, default) on an Optional entry.
GetOr(opt, default) == IF opt = None THEN default ELSE opt[1]

\* The urls dict import_candidates collects from a descriptor, in insertion order.
CollectUrls(d) ==
    (IF d.resume_url # None THEN << <<"resume", d.resume_url[1]>> >> ELSE <<>>)
    \o (IF d.cover_letter_url # None
        THEN << <<"cover_letter", d.cover_letter_url[1]>> >> ELSE <<>>)
    \o (IF d.project_url # None THEN << <<"project", d.project_url[1]>> >> ELSE <<>>)

\* NewCandidate with attachments counting the three link fields whether or not
\* the descriptor has them.
NewCandidateAllLinks(d, id, now) ==
    LET urls == CollectUrls(d)
    IN  [id               |-> id,
         name             |-> d.name[1],
         email            |-> d.email[1],
         phone            |-> d.phone[1],
         applied_role     |-> d.applied_role[1],
         experience       |-> d.experience[1],
         status           |-> GetOr(d.status, "Pending"),
         urls             |-> IF urls # <<>> THEN Some(JsonDumps(urls)) ELSE None,
         rating           |-> GetOr(d.rating, 0),
         stage            |-> GetOr(d.stage, "Screening"),
         location         |-> d.location,
         attachments      |-> 3,
         application_date |-> now]

\* The Candidate(...) that import_candidates builds from a descriptor; the table
\* gives it its id, and its application_date (the column default utcnow) when
\* the row is inserted.
NewCandidate(d, id, now) ==
    LET urls == CollectUrls(d)
    IN  [id               |-> id,
         name             |-> d.name[1],
         email            |-> d.email[1],
         phone            |-> d.phone[1],
         applied_role     |-> d.applied_role[1],
         experience       |-> d.experience[1],
         status           |-> GetOr(d.status, "Pending"),
         urls             |-> IF urls # <<>> THEN Some(JsonDumps(urls)) ELSE None,
         rating           |-> GetOr(d.rating, 0),
         stage            |-> GetOr(d.stage, "Screening"),
         location         |-> d.location,
         attachments      |-> Len(urls),
         application_date |-> now]

\* The id the table gives a new row: one more than the largest id it holds.
RECURSIVE MaxId(_)
MaxId(rows) ==
    IF rows = <<>> THEN 0
    ELSE LET m == MaxId(Tail(rows))
         IN  IF Head(rows).id > m THEN Head(rows).id ELSE m

\* The unique constraint on email: whether inserting `rows` after `table` holds it.
EmailsUnique(rows) ==
    \A i, j \in 1..Len(rows) : rows[i].email = rows[j].email => i = j

Ids(rows) == { rows[i].id : i \in 1..Len(rows) }

Rows(rows) == { rows[i] : i \in 1..Len(rows) }

-----------------------------------------------------------------------------
(* Responses.                                                              *)

\* What a handler answers: the status code, the rows of the body, the class of
\* the exception that ended it ("" when it returned), the detail of an
\* HTTPException and, for a document, the file name of Content-Disposition.
Response(code, exc, detail, body, filename) ==
    [code |-> code, exc |-> exc, detail |-> detail, body |-> body,
     filename |-> filename]

Ok(body) == Response(200, "", "", body, "")

\* raise HTTPException(status_code=code, detail=detail)
HTTPException(code, detail) == Response(code, "HTTPException", detail, <<>>, "")

\* An exception of class exc with message msg leaves the code that raised it.
Raised(exc, msg) == Response(500, exc, msg, <<>>, "")

\* An exception no handler catches: the framework answers 500.
Unhandled(exc) == Raised(exc, "")

\* No request is being served: none has arrived since the last session closed.
NoRequest == [op |-> "none"]

NoResponse == Response(0, "", "", <<>>, "")

Idle == req = NoRequest

-----------------------------------------------------------------------------
(* The session dependency.                                                 *)

\* get_db, after the handler has returned or raised: finally db.close().  The
\* session's transaction ends with it, and the request with its answer is over.
get_db ==
    /\ ~Idle
    /\ UNCHANGED sessions
    /\ req' = NoRequest
    /\ resp' = NoResponse
    /\ UNCHANGED store

-----------------------------------------------------------------------------
(* POST /candidates/import/                                                *)

\* The rows the loop of import_candidates adds to the session, one per descriptor.
ImportRows(table, batch, dates) ==
    [i \in 1..Len(batch) |-> NewCandidate(batch[i], MaxId(table) + i, dates[i])]

\* The outcome of import_candidates: the table afterwards and the response.
ImportOutcome(table, batch, dates) ==
    IF \E i \in 1..Len(batch) : MissingKey(batch[i]) # ""
    THEN [table |-> table, resp |-> Unhandled("KeyError")]
    ELSE LET after == table \o ImportRows(table, batch, dates)
         IN  IF EmailsUnique(after)
             THEN [table |-> after, resp |-> Ok(<<>>)]
             ELSE [table |-> table, resp |-> Unhandled("IntegrityError")]

Batches == UNION { [1..n -> Descriptors] : n \in 0..MaxBatch }

import_candidates ==
    \E batch \in Batches :
      \E dates \in [1..Len(batch) -> ClockValues] :
        /\ Idle
        /\ UNCHANGED sessions
        /\ Len(store) + Len(batch) <= MaxStore
        /\ LET out == ImportOutcome(store, batch, dates)
           IN  /\ store' = out.table
               /\ resp' = out.resp
        /\ req' = [op |-> "import", batch |-> batch]

-----------------------------------------------------------------------------
(* GET /candidates/                                                        *)

get_candidates ==
    /\ Idle
    /\ UNCHANGED sessions
    /\ req' = [op |-> "list"]
    /\ resp' = Ok(store)
    /\ UNCHANGED store

-----------------------------------------------------------------------------
(* GET /candidates/filter/                                                 *)

\* Python's truth test of an Optional[str]: None and "" are both false.
Truthy(opt) == opt # None /\ opt[1] # ""

\* The LIKE operator of the table: % matches any run of characters, _ any one
\* character, every other character itself, letters without regard to case.
RECURSIVE LikeMatch(_, _)
LikeMatch(s, pattern) ==
    IF pattern = "" THEN s = ""
    ELSE IF Head(pattern) = "%"
         THEN LikeMatch(s, Tail(pattern))
              \/ (s # "" /\ LikeMatch(Tail(s), pattern))
    ELSE /\ s # ""
         /\ (Head(pattern) = "_" \/ LowerChar(Head(pattern)) = LowerChar(Head(s)))
         /\ LikeMatch(Tail(s), Tail(pattern))

\* column.ilike(f"%{term}%") on a column that is not NULL.
ILike(value, term) == LikeMatch(Lower(value), Lower("%" \o term \o "%"))

\* The search filter of filter_candidates: name, email or applied_role.
SearchFilter(c, search) ==
    ILike(c.name, search) \/ ILike(c.email, search) \/ ILike(c.applied_role, search)

\* The month_year block of filter_candidates: [ok |-> FALSE] when it raises
\* ValueError, the bounds of the window otherwise.
MonthWindow(month_year) ==
    LET parts == Split(month_year, "-")
        bad   == [ok |-> FALSE, start |-> <<0, 0, 0, 0>>, end |-> <<0, 0, 0, 0>>]
    IN  IF Len(parts) # 2 THEN bad
        ELSE LET year  == ParseInt(parts[1])
                 month == ParseInt(parts[2])
             IN  IF ~year.ok \/ ~month.ok THEN bad
                 ELSE IF ~(1 <= month.v /\ month.v <= 12
                           /\ MinFilterYear <= year.v /\ year.v <= MaxFilterYear)
                      THEN bad
                 ELSE LET start == Datetime(year.v, month.v, 1)
                          end   == IF month.v = 12
                                   THEN Datetime(year.v + 1, 1, 1)
                                   ELSE Datetime(year.v, month.v + 1, 1)
                      IN  IF ~start.ok \/ ~end.ok THEN bad
                          ELSE [ok |-> TRUE, start |-> start.v, end |-> end.v]

\* The two application_date conditions of the month filter.
InWindow(c, w) ==
    DateLeq(w.start, c.application_date) /\ DateLess(c.application_date, w.end)

\* The WHERE clause filter_candidates has built when it reaches order_by.
FilterWhere(c, r) ==
    /\ Truthy(r.role) => c.applied_role = r.role[1]
    /\ Truthy(r.status) => c.status = r.status[1]
    /\ Truthy(r.stage) => c.stage = r.stage[1]
    /\ Truthy(r.search) => SearchFilter(c, r.search[1])
    /\ Truthy(r.month_year) => InWindow(c, MonthWindow(r.month_year[1]))

\* OrderBy without the .desc() of the rating term.
OrderByRatingAscending(sort_by, a, b) ==
    CASE sort_by = "name"             -> StrLeq(a.name, b.name)
      [] sort_by = "application_date" -> DateLeq(b.application_date, a.application_date)
      [] sort_by = "rating"           -> a.rating <= b.rating

\* The ORDER BY term of sort_by: whether row a may come before row b.
OrderBy(sort_by, a, b) ==
    CASE sort_by = "name"             -> StrLeq(a.name, b.name)
      [] sort_by = "application_date" -> DateLeq(b.application_date, a.application_date)
      [] sort_by = "rating"           -> b.rating <= a.rating

\* Every order the table may return the selected rows in: rows with equal sort
\* keys come in an order the table does not promise.
OrderedResults(selected, sort_by) ==
    { body \in [1..Cardinality(selected) -> selected] :
        /\ \A i, j \in 1..Cardinality(selected) : body[i] = body[j] => i = j
        /\ \A i \in 1..(Cardinality(selected) - 1) :
             OrderBy(sort_by, body[i], body[i + 1]) }

\* The validation at the top of filter_candidates and in its month_year block:
\* the HTTPException it raises, or Ok(<<>>) when it raises none.
FilterValidation(r) ==
    IF Truthy(r.status) /\ r.status[1] \notin STATUSES
    THEN HTTPException(400, "Invalid status")
    ELSE IF Truthy(r.stage) /\ r.stage[1] \notin STAGES
    THEN HTTPException(400, "Invalid stage")
    ELSE IF r.sort_by \notin SORT_FIELDS
    THEN HTTPException(400, "Invalid sort field")
    ELSE IF Truthy(r.month_year) /\ ~MonthWindow(r.month_year[1]).ok
    THEN HTTPException(400, "Invalid month_year format")
    ELSE Ok(<<>>)

\* The responses filter_candidates may give to request r on a table.
FilterResponses(table, r) ==
    IF FilterValidation(r).code # 200 THEN { FilterValidation(r) }
    ELSE { Ok(body) :
             body \in OrderedResults({ c \in Rows(table) : FilterWhere(c, r) },
                                     r.sort_by) }

FilterRequest(role, status, stage, search, sort_by, month_year) ==
    [op |-> "filter", role |-> role, status |-> status, stage |-> stage,
     search |-> search, sort_by |-> sort_by, month_year |-> month_year]

\* The requests sent to the filter endpoint: every combination of enumeration
\* and sort values, valid and not; every combination of valid filters; every
\* month_year text.
MonthYears ==
    { "", "2024-12", "2024-11", "2025-01", "2024-13", "2024-0", "9999-12", "9999-11",
      "1899-12", "2024", "2024-12-01", "x-12", "2024-012", " 2024-12", "+2024-1_2" }

FilterRequests ==
    { FilterRequest(None, st, sg, None, sb, my) :
        st \in {None, Some(""), Some("Selected"), Some("selected")},
        sg \in {None, Some(""), Some("Hired"), Some("Xx")},
        sb \in {"name", "application_date", "rating", "", "id"},
        my \in {None, Some("2024-13")} }
    \cup
    { FilterRequest(ro, st, sg, se, sb, my) :
        ro \in {None, Some("Dev")},
        st \in {None, Some("Pending")},
        sg \in {None, Some("Screening")},
        se \in {None, Some(""), Some("B"), Some("dev"), Some("_"), Some("%")},
        sb \in SORT_FIELDS,
        my \in {None, Some("2024-12"), Some("2025-01")} }
    \cup
    { FilterRequest(None, None, None, None, DEFAULT_SORT, Some(my)) :
        my \in MonthYears }

filter_candidates ==
    \E r \in FilterRequests :
      /\ Idle
      /\ UNCHANGED sessions
      /\ req' = r
      /\ resp' \in FilterResponses(store, r)
      /\ UNCHANGED store

-----------------------------------------------------------------------------
(* GET /candidates/search/                                                 *)

\* column.ilike(pattern) in the table's three-valued logic: NULL on a NULL column.
ILike3(opt, term) ==
    IF opt = None THEN "NULL" ELSE IF ILike(opt[1], term) THEN "TRUE" ELSE "FALSE"

\* a | b | ... in the table's three-valued logic.
Or3(values) ==
    IF \E i \in 1..Len(values) : values[i] = "TRUE" THEN "TRUE"
    ELSE IF \E i \in 1..Len(values) : values[i] = "NULL" THEN "NULL"
    ELSE "FALSE"

\* The WHERE clause of search_candidates; a row is kept when it is TRUE.
SearchWhere(c, query) ==
    Or3(<< ILike3(Some(c.name), query), ILike3(Some(c.email), query),
           ILike3(Some(c.applied_role), query), ILike3(Some(c.experience), query),
           ILike3(Some(c.phone), query), ILike3(Some(c.stage), query),
           ILike3(Some(c.status), query), ILike3(c.location, query) >>) = "TRUE"

\* The rows search_candidates returns: the rows the WHERE clause keeps, in the
\* order of the table.
RECURSIVE SearchRows(_, _)
SearchRows(rows, query) ==
    IF rows = <<>> THEN <<>>
    ELSE (IF SearchWhere(Head(rows), query) THEN <<Head(rows)>> ELSE <<>>)
         \o SearchRows(Tail(rows), query)

SearchQueries == { "", "b", "PUNE", "hired", "_", "%", "3Y", "zz" }

search_candidates ==
    \E query \in SearchQueries :
      /\ Idle
      /\ UNCHANGED sessions
      /\ req' = [op |-> "search", query |-> query]
      /\ resp' = Ok(SearchRows(store, query))
      /\ UNCHANGED store

-----------------------------------------------------------------------------
(* GET /candidates/{candidate_id}/ and PATCH /candidates/{candidate_id}/status/ *)

\* db.query(Candidate).filter(Candidate.id == candidate_id).first(): the row
\* with that id as an Optional.
First(table, candidate_id) ==
    IF \E i \in 1..Len(table) : table[i].id = candidate_id
    THEN Some(table[CHOOSE i \in 1..Len(table) : table[i].id = candidate_id])
    ELSE None

NotFound == HTTPException(404, "Candidate not found")

\* The identifiers requests name: those of rows and some of no row.
CandidateIds == 0..(MaxStore + 1)

GetCandidateResponse(table, candidate_id) ==
    IF First(table, candidate_id) = None THEN NotFound
    ELSE Ok(First(table, candidate_id))

get_candidate ==
    \E candidate_id \in CandidateIds :
      /\ Idle
      /\ UNCHANGED sessions
      /\ req' = [op |-> "get", candidate_id |-> candidate_id]
      /\ resp' = GetCandidateResponse(store, candidate_id)
      /\ UNCHANGED store

\* The three assignments of update_status on the row it found.
AssignUpdate(c, update) ==
    [c EXCEPT
       !.status = IF Truthy(update.status) THEN update.status[1] ELSE @,
       !.stage  = IF Truthy(update.stage) THEN update.stage[1] ELSE @,
       !.rating = IF update.rating # None THEN update.rating[1] ELSE @]

\* The outcome of update_status: the table after the commit and the response
\* (the refreshed row).
UpdateOutcome(table, candidate_id, update) ==
    IF First(table, candidate_id) = None
    THEN [table |-> table, resp |-> NotFound]
    ELSE LET after == [i \in 1..Len(table) |->
                         IF table[i].id = candidate_id
                         THEN AssignUpdate(table[i], update)
                         ELSE table[i]]
         IN  [table |-> after, resp |-> Ok(First(after, candidate_id))]

\* The bodies sent to the update endpoint (CandidateUpdate): each field absent
\* (or null), empty, or a value.  The model is three Optional fields without
\* validators: any text and any number pass.
Updates ==
    [status : {None, Some(""), Some("Accepted")},
     stage  : {None, Some(""), Some("Interview")},
     rating : {None, Some(0), Some(60)}]

update_status ==
    \E candidate_id \in CandidateIds, update \in Updates :
      /\ Idle
      /\ UNCHANGED sessions
      /\ req' = [op |-> "update", candidate_id |-> candidate_id, update |-> update]
      /\ LET out == UpdateOutcome(store, candidate_id, update)
         IN  /\ store' = out.table
             /\ resp' = out.resp

-----------------------------------------------------------------------------
(* GET /candidates/{candidate_id}/pdf/                                     *)

\* The urls dict generate_pdf parses from the row: {} when the column is NULL or
\* empty and when json.loads raises JSONDecodeError.
PdfUrls(c) ==
    IF c.urls = None THEN <<>>
    ELSE IF JsonLoads(c.urls[1]).ok THEN JsonLoads(c.urls[1]).doc ELSE <<>>

\* The url_section loop: url.replace is called on every value of the dict, and
\* raises AttributeError on a value that is not a str.
UrlSectionRaises(urls) == \E i \in 1..Len(urls) : urls[i][2].t # "str"

\* The optional sub-documents the handler reads from the row after the links.
PdfFields == <<"skills", "education", "experience_details", "projects">>

\* The name of the attachment in Content-Disposition.
PdfFilename(c, candidate_id) ==
    Replace(c.name, " ", "_") \o "_" \o ToString(candidate_id) \o ".pdf"

\* The body of the try block of generate_pdf on a row: the response it returns,
\* or the exception that leaves it.
PdfTry(table, candidate_id) ==
    IF First(table, candidate_id) = None THEN { NotFound }
    ELSE LET c == First(table, candidate_id)[1]
         IN  IF UrlSectionRaises(PdfUrls(c))
             THEN { Raised("AttributeError", "object has no attribute 'replace'") }
             ELSE IF \E i \in 1..Len(PdfFields) : ~HasAttr(PdfFields[i])
             THEN { Raised("AttributeError",
                           "'Candidate' object has no attribute '"
                           \o PdfFields[CHOOSE i \in 1..Len(PdfFields) :
                                          /\ ~HasAttr(PdfFields[i])
                                          /\ \A j \in 1..(i - 1) : HasAttr(PdfFields[j])]
                           \o "'") }
             ELSE { Response(200, "", "", <<c>>, PdfFilename(c, candidate_id)),
                    HTTPException(500, "Error generating PDF") }

\* PdfExcept without its first clause (except HTTPException: raise).
PdfExceptCatchAll(outcome) ==
    IF outcome.exc = "" THEN outcome
    ELSE HTTPException(500, "Error processing request: " \o outcome.detail)

\* The except clauses of generate_pdf: an HTTPException is raised again as it
\* is, any other exception becomes the 500 HTTPException.
PdfExcept(outcome) ==
    IF outcome.exc = "" \/ outcome.exc = "HTTPException" THEN outcome
    ELSE HTTPException(500, "Error processing request: " \o outcome.detail)

GeneratePdfResponses(table, candidate_id) ==
    { PdfExcept(outcome) : outcome \in PdfTry(table, candidate_id) }

generate_pdf ==
    \E candidate_id \in CandidateIds :
      /\ Idle
      /\ UNCHANGED sessions
      /\ req' = [op |-> "pdf", candidate_id |-> candidate_id]
      /\ resp' \in GeneratePdfResponses(store, candidate_id)
      /\ UNCHANGED store

-----------------------------------------------------------------------------
(* POST /seed/                                                             *)

\* The keyword arguments of the first Candidate(...) of seed_data, in order.
SeedKeywords ==
    <<"name", "email", "phone", "applied_role", "experience", "status", "stage",
      "rating", "location", "application_date", "urls", "attachments",
      "basic_info", "skills", "education", "experience_details", "projects">>

\* One Candidate(...) of the demo list as a row: the columns of the table only.
\* The application date is some days before now; the offset is not kept.
SeedCandidate(name, email, phone, role, exp, status, stage, rating, loc, urls, n) ==
    [name |-> name, email |-> email, phone |-> phone, applied_role |-> role,
     experience |-> exp, status |-> status, stage |-> stage,
     rating |-> rating, location |-> Some(loc),
     urls |-> Some(JsonDumps(urls)), attachments |-> n]

\* The six demo candidates.
SeedCandidates ==
    << SeedCandidate("Charlie Kristen", "charlie.k@example.com", "+1234567890",
                     "Sr. UX Designer", "5 years", "In Process",
                     "Design Challenge", 40, "Bengaluru",
                     << <<"resume", JStr("https://example.com/resume/charlie.pdf")>>,
                        <<"cover_letter", JStr("https://example.com/cover/charlie.pdf")>>,
                        <<"project", JStr("https://example.com/portfolio/charlie")>> >>,
                     3),
       SeedCandidate("Malaika Brown", "malaika.b@example.com", "+9876543210",
                     "Growth Manager", "3 years", "In Process", "Screening", 35,
                     "Remote",
                     << <<"resume", JStr("https://example.com/resume/malaika.pdf")>> >>,
                     1),
       SeedCandidate("Simon Minter", "simon.m@example.com", "+1122334455",
                     "Financial Analyst", "4 years", "In Process",
                     "Design Challenge", 28, "Mumbai",
                     << <<"resume", JStr("https://example.com/resume/simon.pdf")>>,
                        <<"project", JStr("https://example.com/projects/simon")>> >>,
                     2),
       SeedCandidate("Ashley Brooke", "ashley.b@example.com", "+5566778899",
                     "Financial Analyst", "6 years", "In Process", "HR Round", 45,
                     "Mumbai",
                     << <<"resume", JStr("https://example.com/resume/ashley.pdf")>>,
                        <<"cover_letter", JStr("https://example.com/cover/ashley.pdf")>>,
                        <<"project", JStr("https://example.com/portfolio/ashley")>> >>,
                     3),
       SeedCandidate("Nishant Talwar", "nishant.t@example.com", "+1098765432",
                     "Sr. UX Designer", "7 years", "In Process",
                     "Round 2 Interview", 50, "Bengaluru",
                     << <<"resume", JStr("https://example.com/resume/nishant.pdf")>>,
                        <<"project", JStr("https://example.com/portfolio/nishant")>> >>,
                     2),
       SeedCandidate("Mark Jacobs", "mark.j@example.com", "+2233445566",
                     "Growth Manager", "2 years", "Rejected", "Rejected", 20,
                     "Remote",
                     << <<"resume", JStr("https://example.com/resume/mark.pdf")>> >>,
                     1) >>

\* The rows the table holds after the demo list is inserted into the emptied
\* table.
SeedRows(now) ==
    [i \in 1..Len(SeedCandidates) |->
       [id               |-> i,
        name             |-> SeedCandidates[i].name,
        email            |-> SeedCandidates[i].email,
        phone            |-> SeedCandidates[i].phone,
        applied_role     |-> SeedCandidates[i].applied_role,
        experience       |-> SeedCandidates[i].experience,
        status           |-> SeedCandidates[i].status,
        urls             |-> SeedCandidates[i].urls,
        rating           |-> SeedCandidates[i].rating,
        stage            |-> SeedCandidates[i].stage,
        location         |-> SeedCandidates[i].location,
        attachments      |-> SeedCandidates[i].attachments,
        application_date |-> now]]

\* Candidate(**kwargs) raises TypeError on a keyword the model does not declare.
ConstructorRaises(keywords) == \E i \in 1..Len(keywords) : ~HasAttr(keywords[i])

\* SeedOutcome with the DELETE committed on its own, before the list is built.
SeedOutcomeDeleteCommitted(table, now) ==
    IF ConstructorRaises(SeedKeywords)
    THEN [table |-> <<>>, resp |-> Unhandled("TypeError")]
    ELSE [table |-> SeedRows(now), resp |-> Ok(<<>>)]

\* The outcome of seed_data: the DELETE runs inside the session's transaction,
\* the list of Candidate(...) is built next, and only the commit at the end
\* makes either visible.  An exception before it leaves the table as it was.
SeedOutcome(table, now) ==
    IF ConstructorRaises(SeedKeywords)
    THEN [table |-> table, resp |-> Unhandled("TypeError")]
    ELSE [table |-> SeedRows(now), resp |-> Ok(<<>>)]

seed_data ==
    \E now \in ClockValues :
      /\ Idle
      /\ UNCHANGED sessions
      /\ req' = [op |-> "seed"]
      /\ LET out == SeedOutcome(store, now)
         IN  /\ store' = out.table
             /\ resp' = out.resp

-----------------------------------------------------------------------------
(* Requests in progress side by side.                                      *)
(*                                                                         *)
(* A handler declared with def runs on a worker thread, so several         *)
(* requests are in progress at once, each in the session get_db made for   *)
(* it.  Here a handler is as many steps as it has statements that touch    *)
(* the session, and `store` is the committed table: what a statement of    *)
(* another session reads.  SQLite lets one transaction write at a time; a  *)
(* statement that writes while another session's transaction has written   *)
(* waits, and raises OperationalError (database is locked) when its wait   *)
(* runs out.                                                               *)

Slots == 1..MaxSessions

NoUpdate == [status |-> None, stage |-> None, rating |-> None]

\* A slot that serves no request: no session exists for it.  closes counts the
\* db.close() calls of the slot's last request.
IdleSession ==
    [pc |-> "idle", open |-> FALSE, closes |-> 0, op |-> "none",
     candidate_id |-> 0, update |-> NoUpdate, batch |-> <<>>,
     pending |-> <<>>, loaded |-> None, obj |-> None, lock |-> FALSE,
     resp |-> NoResponse]

\* The descriptors of the files uploaded side by side, and the files.
SessionDescriptors == { d \in Descriptors : d.name[1] \in {"Ab", "a b"} }

SessionBatches == { batch \in Batches : /\ batch # <<>>
                                        /\ \A i \in 1..Len(batch) :
                                             batch[i] \in SessionDescriptors }

\* The update bodies sent side by side.
SessionUpdates ==
    [status : {None, Some("Pending"), Some("Accepted")},
     stage  : {None, Some("Interview")},
     rating : {None}]

\* The id the updates name: that of the first row imported, or of no row yet.
SessionIds == {1}

\* What datetime.utcnow returns while these requests run.
SessionClock == { <<2025, 1, 1, 0>> }

\* The requests that arrive: the endpoint and its inputs.
SessionRequests ==
    { [op |-> "import", candidate_id |-> 0, update |-> NoUpdate, batch |-> batch] :
        batch \in SessionBatches }
    \cup { [op |-> "update", candidate_id |-> id, update |-> update, batch |-> <<>>] :
             id \in SessionIds, update \in SessionUpdates }
    \cup { [op |-> "seed", candidate_id |-> 0, update |-> NoUpdate, batch |-> <<>>] }

\* The rows the imports in progress may still add.
RECURSIVE PendingRows(_)
PendingRows(slots) ==
    IF slots = {} THEN 0
    ELSE LET s == CHOOSE t \in slots : TRUE
         IN  Len(sessions[s].batch) + PendingRows(slots \ {s})

\* get_db up to its yield: db = SessionLocal(), and the handler is called with
\* it.
SessionLocal(s) ==
    \E r \in SessionRequests :
      /\ sessions[s].pc = "idle"
      /\ Len(store) + PendingRows(Slots) + Len(r.batch) <= MaxStore
      /\ sessions' = [sessions EXCEPT ![s] =
                        [IdleSession EXCEPT
                           !.pc = r.op, !.open = TRUE, !.op = r.op,
                           !.candidate_id = r.candidate_id,
                           !.update = r.update, !.batch = r.batch]]
      /\ UNCHANGED <<store, req, resp>>

\* The handler returns or an exception leaves it: the answer is decided and
\* only the finally clause of get_db is left to run.
Leave(sess, response) == [sess EXCEPT !.pc = "done", !.resp = response]

\* Another session's transaction has written and is not over.
WriteLocked(s) == \E t \in Slots \ {s} : sessions[t].lock

Locked == Unhandled("OperationalError")

\* One pass of the loop of import_candidates: the Candidate of the next
\* descriptor is built and added to the session; nothing is sent to the table.
import_add(s) ==
    LET sess == sessions[s]
        d    == sess.batch[Len(sess.pending) + 1]
    IN  /\ sess.pc = "import"
        /\ Len(sess.pending) < Len(sess.batch)
        /\ sessions' = [sessions EXCEPT ![s] =
                          IF MissingKey(d) # ""
                          THEN Leave(sess, Unhandled("KeyError"))
                          ELSE [sess EXCEPT !.pending = Append(@, d)]]
        /\ UNCHANGED <<store, req, resp>>

\* InsertRow without the unique constraint on email.
InsertRowAnyEmail(table, d, now) ==
    [ok |-> TRUE, table |-> Append(table, NewCandidate(d, MaxId(table) + 1, now))]

\* INSERT of one pending Candidate into the table as the transaction sees it:
\* the unique constraint on email refuses it (IntegrityError), or the row gets
\* the next id.
InsertRow(table, d, now) ==
    IF \E i \in 1..Len(table) : table[i].email = d.email[1]
    THEN [ok |-> FALSE, table |-> table]
    ELSE [ok |-> TRUE,
          table |-> Append(table, NewCandidate(d, MaxId(table) + 1, now))]

\* The flush of the pending Candidates in the order they were added; it stops
\* at the first INSERT that fails, with the table as the transaction sees it.
RECURSIVE InsertAll(_, _, _)
InsertAll(table, pending, now) ==
    IF pending = <<>> THEN [ok |-> TRUE, table |-> table]
    ELSE LET r == InsertRow(table, Head(pending), now)
         IN  IF r.ok THEN InsertAll(r.table, Tail(pending), now) ELSE r

\* CommitInserts that keeps the rows inserted before the failing one.
CommitInsertsEachRow(table, pending, now) ==
    LET r == InsertAll(table, pending, now)
    IN  IF r.ok THEN [table |-> r.table, resp |-> Ok(<<>>)]
        ELSE [table |-> r.table, resp |-> Unhandled("IntegrityError")]

\* db.commit() of import_candidates: the flush and the COMMIT; a failed flush
\* rolls the transaction back.  The rows of one flush get the same date here.
CommitInserts(table, pending, now) ==
    LET r == InsertAll(table, pending, now)
    IN  IF r.ok THEN [table |-> r.table, resp |-> Ok(<<>>)]
        ELSE [table |-> table, resp |-> Unhandled("IntegrityError")]

import_commit(s) ==
    \E now \in SessionClock :
      LET sess == sessions[s]
          out  == IF WriteLocked(s) THEN [table |-> store, resp |-> Locked]
                  ELSE CommitInserts(store, sess.pending, now)
      IN  /\ sess.pc = "import"
          /\ Len(sess.pending) = Len(sess.batch)
          /\ store' = out.table
          /\ sessions' = [sessions EXCEPT ![s] = Leave(sess, out.resp)]
          /\ UNCHANGED <<req, resp>>

\* The query of update_status: the row is loaded into the session.
update_lookup(s) ==
    LET sess  == sessions[s]
        found == First(store, sess.candidate_id)
    IN  /\ sess.pc = "update"
        /\ sessions' = [sessions EXCEPT ![s] =
                          IF found = None THEN Leave(sess, NotFound)
                          ELSE [sess EXCEPT !.pc = "assign",
                                            !.loaded = found, !.obj = found]]
        /\ UNCHANGED <<store, req, resp>>

\* The three assignments of update_status, on the loaded object.
update_assign(s) ==
    LET sess == sessions[s]
    IN  /\ sess.pc = "assign"
        /\ sessions' = [sessions EXCEPT ![s] =
                          [sess EXCEPT !.pc = "commit",
                                       !.obj = Some(AssignUpdate(sess.obj[1],
                                                                 sess.update))]]
        /\ UNCHANGED <<store, req, resp>>

\* The columns the flush of an object writes: those whose value is not the one
\* the object was loaded with.
ChangedColumns(loaded, obj) ==
    { f \in {"status", "stage", "rating"} : obj[f] # loaded[f] }

\* UPDATE candidates SET <changed columns> WHERE id = <id of the object>.
FlushUpdate(table, loaded, obj) ==
    [i \in 1..Len(table) |->
       IF table[i].id = obj.id
       THEN [f \in DOMAIN table[i] |->
               IF f \in ChangedColumns(loaded, obj) THEN obj[f] ELSE table[i][f]]
       ELSE table[i]]

\* db.commit(), db.refresh(candidate) and the return of update_status.  With no
\* changed column nothing is written.
update_commit(s) ==
    LET sess    == sessions[s]
        loaded  == sess.loaded[1]
        obj     == sess.obj[1]
        writes  == ChangedColumns(loaded, obj) # {}
        after   == IF writes THEN FlushUpdate(store, loaded, obj) ELSE store
        fresh   == First(after, sess.candidate_id)
    IN  /\ sess.pc = "commit"
        /\ IF writes /\ WriteLocked(s)
           THEN /\ store' = store
                /\ sessions' = [sessions EXCEPT ![s] = Leave(sess, Locked)]
           ELSE /\ store' = after
                /\ sessions' = [sessions EXCEPT ![s] =
                                  Leave(sess, IF fresh = None
                                              THEN Unhandled("InvalidRequestError")
                                              ELSE Ok(fresh))]
        /\ UNCHANGED <<req, resp>>

\* db.query(Candidate).delete() of seed_data: the DELETE runs at once, inside
\* the session's transaction.
seed_delete(s) ==
    LET sess == sessions[s]
    IN  /\ sess.pc = "seed"
        /\ sessions' = [sessions EXCEPT ![s] =
                          IF WriteLocked(s) THEN Leave(sess, Locked)
                          ELSE [sess EXCEPT !.pc = "build", !.lock = TRUE]]
        /\ UNCHANGED <<store, req, resp>>

\* The rest of seed_data: the list of Candidate(...), the adds and db.commit().
seed_build(s) ==
    \E now \in SessionClock :
      LET sess == sessions[s]
          out  == SeedOutcome(store, now)
      IN  /\ sess.pc = "build"
          /\ store' = out.table
          /\ sessions' = [sessions EXCEPT ![s] = Leave(sess, out.resp)]
          /\ UNCHANGED <<req, resp>>

\* CloseSession that runs only when the handler returned: get_db without its
\* try ... finally.
CloseSessionOnReturn(sess) ==
    IF sess.resp.exc = ""
    THEN [IdleSession EXCEPT !.closes = sess.closes + 1]
    ELSE [IdleSession EXCEPT !.open = TRUE, !.lock = sess.lock,
                             !.closes = sess.closes]

\* db.close(): what the session has not committed is rolled back and dropped,
\* and the session is gone.
CloseSession(sess) == [IdleSession EXCEPT !.closes = sess.closes + 1]

\* The finally clause of get_db, after the handler has returned or raised.
session_close(s) ==
    /\ sessions[s].pc = "done"
    /\ sessions' = [sessions EXCEPT ![s] = CloseSession(sessions[s])]
    /\ UNCHANGED <<store, req, resp>>

\* What a request does once it has arrived.
Finish(s) ==
    \/ import_add(s)
    \/ import_commit(s)
    \/ update_lookup(s)
    \/ update_assign(s)
    \/ update_commit(s)
    \/ seed_delete(s)
    \/ seed_build(s)
    \/ session_close(s)

-----------------------------------------------------------------------------
(* The parsing of the optional sub-documents in generate_pdf.              *)

\* A text that json.loads refuses with JSONDecodeError.
Unparsable == [kind |-> "text", doc |-> <<>>]

\* x of `json.loads(x) if x else []`: the document, or ok = FALSE when
\* json.loads raises JSONDecodeError.  NULL is falsy and gives the empty value.
LoadIfSet(text) ==
    IF text = None THEN [ok |-> TRUE, doc |-> <<>>] ELSE JsonLoads(text[1])

\* The try block of the link map: on JSONDecodeError urls = {}.
ParseUrls(text) == IF LoadIfSet(text).ok THEN LoadIfSet(text).doc ELSE <<>>

\* The try block of the four other sub-documents: one except clause for the
\* four loads, which sets all four to [].
ParseFields(texts) ==
    IF \A i \in 1..Len(PdfFields) : LoadIfSet(texts[PdfFields[i]]).ok
    THEN [f \in Rows(PdfFields) |-> LoadIfSet(texts[f]).doc]
    ELSE [f \in Rows(PdfFields) |-> <<>>]

\* What the handler goes on with: the link map and the four lists.
PdfSubDocuments(texts) ==
    [urls               |-> ParseUrls(texts.urls),
     skills             |-> ParseFields(texts).skills,
     education          |-> ParseFields(texts).education,
     experience_details |-> ParseFields(texts).experience_details,
     projects           |-> ParseFields(texts).projects]

\* What a sub-document column of a candidate object may hold: NULL, a text
\* that is not JSON, a well-formed text of one entry.
LinkTexts ==
    {None, Some(Unparsable), Some(JsonDumps(<< <<"resume", JStr("r")>> >>))}

ListTexts == {None, Some(Unparsable), Some(JsonDumps(<<JStr("x")>>))}

PdfTexts ==
    [urls : LinkTexts, skills : ListTexts, education : ListTexts,
     experience_details : ListTexts, projects : ListTexts]

\* The two try blocks run on the texts of a candidate object.
parse_sub_documents ==
    /\ req.op = "subdocs"
    /\ resp = NoResponse
    /\ resp' = Response(0, "", "", <<PdfSubDocuments(req.texts)>>, "")
    /\ UNCHANGED <<store, req, sessions>>

InitSubDocuments ==
    /\ store = <<>>
    /\ req \in { [op |-> "subdocs", texts |-> texts] : texts \in PdfTexts }
    /\ resp = NoResponse
    /\ sessions = [s \in Slots |-> IdleSession]

SpecSubDocuments == InitSubDocuments /\ [][parse_sub_documents]_vars

-----------------------------------------------------------------------------
(* The markup generate_pdf composes.                                       *)
(*                                                                         *)
(* html_content is held as the list of its sections in the order of the    *)
(* template; a section is its heading, the labels of its grid and the      *)
(* targets of its hyperlinks.                                              *)

\* A JSON object, as its entries in order.
JDict(entries) == [t |-> "dict", s |-> "", n |-> 0, entries |-> entries]

\* d.get(key, default) on the entries of a JSON object.
DictGet(entries, key, default) ==
    IF \E i \in 1..Len(entries) : entries[i][1] = key
    THEN entries[CHOOSE i \in 1..Len(entries) : entries[i][1] = key][2]
    ELSE default

\* A JSON value formatted into an f-string.
Format(v) == IF v.t = "str" THEN v.s ELSE IF v.t = "num" THEN ToString(v.n) ELSE "{}"

Section(title, labels, hrefs) == [title |-> title, labels |-> labels, hrefs |-> hrefs]

\* url.replace("&", "&amp;").replace("<", "&lt;").replace(">", "&gt;")
SafeUrl(url) == Replace(Replace(Replace(url, "&", "&amp;"), "<", "&lt;"), ">", "&gt;")

\* url_section: "" for an empty link map, else the Attachments block with one
\* link per entry, its target escaped.
UrlSection(urls) ==
    IF urls = <<>> THEN <<>>
    ELSE << Section("Attachments", <<>>,
                    [i \in 1..Len(urls) |-> SafeUrl(urls[i][2].s)]) >>

\* SkillsSection that renders its block whatever the list holds.
SkillsSectionAlways(skills) == << Section("Skills", <<>>, <<>>) >>

SkillsSection(skills) ==
    IF skills = <<>> THEN <<>> ELSE << Section("Skills", <<>>, <<>>) >>

EducationSection(education) ==
    IF education = <<>> THEN <<>> ELSE << Section("Education", <<>>, <<>>) >>

ExperienceSection(experience_details) ==
    IF experience_details = <<>> THEN <<>>
    ELSE << Section("Experience Details", <<>>, <<>>) >>

\* projects_section: one link per project, its target proj.get('link', '#') as
\* it is.
ProjectsSection(projects) ==
    IF projects = <<>> THEN <<>>
    ELSE << Section("Projects", <<>>,
                    [i \in 1..Len(projects) |->
                       Format(DictGet(projects[i].entries, "link", JStr("#")))]) >>

\* The part of the template that does not depend on the sub-documents: the
\* heading with the grid of the candidate's fields, and the basic information.
FixedSections ==
    << Section("Candidate Details",
               <<"Name", "Email", "Phone", "Applied Role", "Experience", "Status",
                 "Current Stage", "Rating", "Location", "Application Date">>,
               <<>>),
       Section("Basic Information", <<>>, <<>>) >>

html_content(parsed) ==
    FixedSections
    \o SkillsSection(parsed.skills)
    \o EducationSection(parsed.education)
    \o ExperienceSection(parsed.experience_details)
    \o ProjectsSection(parsed.projects)
    \o UrlSection(parsed.urls)

\* Some element of a list is not a JSON value of kind t.
SomeNot(list, t) == \E i \in 1..Len(list) : list[i].t # t

\* What the composition ends with: the first exception raised by a value of
\* another shape than the code expects, else the responses of the handler
\* with the document (weasyprint may fail on it).
ComposeOutcomes(parsed) ==
    IF UrlSectionRaises(parsed.urls)
    THEN { Raised("AttributeError", "object has no attribute 'replace'") }
    ELSE IF SomeNot(parsed.skills, "str")
    THEN { Raised("TypeError", "sequence item 0: expected str instance") }
    ELSE IF \/ SomeNot(parsed.education, "dict")
            \/ SomeNot(parsed.experience_details, "dict")
            \/ SomeNot(parsed.projects, "dict")
    THEN { Raised("AttributeError", "object has no attribute 'get'") }
    ELSE { Response(200, "", "", <<parsed, html_content(parsed)>>, ""),
           HTTPException(500, "Error generating PDF") }

\* The sections are composed from the parsed sub-documents.
compose_document ==
    /\ req.op = "subdocs"
    /\ resp.code = 0
    /\ Len(resp.body) = 1
    /\ resp' \in { PdfExcept(outcome) : outcome \in ComposeOutcomes(resp.body[1]) }
    /\ UNCHANGED <<store, req, sessions>>

\* The texts of the candidate objects whose document is composed.
DocumentLinkTexts ==
    {None, Some(Unparsable),
     Some(JsonDumps(<< <<"resume", JStr("r&<1>")>>, <<"project", JStr("p")>> >>))}

DocumentEntryTexts ==
    {None, Some(JsonDumps(<<>>)), Some(JsonDumps(<<JDict(<< <<"name", JStr("n")>> >>)>>))}

DocumentProjectTexts ==
    {None,
     Some(JsonDumps(<<JDict(<< <<"name", JStr("n")>>, <<"link", JStr("l&<2>")>> >>),
                      JDict(<< <<"name", JStr("m")>> >>)>>)),
     Some(JsonDumps(<<JStr("odd")>>))}

DocumentTexts ==
    [urls : DocumentLinkTexts,
     skills : {None, Some(JsonDumps(<<>>)), Some(JsonDumps(<<JStr("x")>>))},
     education : DocumentEntryTexts,
     experience_details : DocumentEntryTexts,
     projects : DocumentProjectTexts]

InitDocument ==
    /\ store = <<>>
    /\ req \in { [op |-> "subdocs", texts |-> texts] : texts \in DocumentTexts }
    /\ resp = NoResponse
    /\ sessions = [s \in Slots |-> IdleSession]

NextDocument == parse_sub_documents \/ compose_document

SpecDocument == InitDocument /\ [][NextDocument]_vars

-----------------------------------------------------------------------------

Init ==
    /\ store = <<>>
    /\ req = NoRequest
    /\ resp = NoResponse
    /\ sessions = [s \in Slots |-> IdleSession]

\* The list endpoints over the tables that imports build.
NextQuery ==
    \/ import_candidates
    \/ get_candidates
    \/ filter_candidates
    \/ search_candidates
    \/ get_db

SpecQuery == Init /\ [][NextQuery]_vars

\* The endpoints of one record over the tables that imports and updates build.
NextRecord ==
    \/ import_candidates
    \/ get_candidate
    \/ update_status
    \/ generate_pdf
    \/ seed_data
    \/ get_db

SpecRecord == Init /\ [][NextRecord]_vars

\* The endpoints together.
Next == NextQuery \/ NextRecord

Spec == Init /\ [][Next]_vars

\* The endpoints together over tables of at most MaxFrameStore rows.
NextFrame ==
    \/ import_candidates /\ Len(store') <= MaxFrameStore
    \/ get_candidates
    \/ filter_candidates
    \/ search_candidates
    \/ get_candidate
    \/ update_status
    \/ generate_pdf
    \/ seed_data
    \/ get_db

SpecFrame == Init /\ [][NextFrame]_vars

\* The writing endpoints, several requests at a time.
NextSession == \E s \in Slots : SessionLocal(s) \/ Finish(s)

\* A request that has arrived runs to its end: its thread is not starved.
SpecSession ==
    Init /\ [][NextSession]_vars /\ \A s \in Slots : WF_vars(Finish(s))

-----------------------------------------------------------------------------
(* Properties of the filter endpoint.                                      *)

IsFilter == req.op = "filter"

\* A value was given for an Optional parameter, the empty string included.
Supplied(opt) == opt # None

\* Claim C1: a filter request whose status is no member of the status
\* enumeration, whose stage is no member of the stage enumeration or whose
\* sort_by is no sort field (the empty string included) is answered 400.
C1_InvalidValueRejected ==
    IsFilter =>
      ((\/ Supplied(req.status) /\ req.status[1] \notin STATUSES
        \/ Supplied(req.stage) /\ req.stage[1] \notin STAGES
        \/ req.sort_by \notin SORT_FIELDS)
       => resp.code = 400)

\* YYYY-MM: four digits, a dash, two digits.
IsYearMonth(s) ==
    /\ Len(s) = 7
    /\ SubSeq(s, 5, 5) = "-"
    /\ \A i \in {1, 2, 3, 4, 6, 7} : IsDigit(SubSeq(s, i, i))

YearOf(s) == DigitsValue(SubSeq(s, 1, 4), 0)

MonthOf(s) == DigitsValue(SubSeq(s, 6, 7), 0)

\* A well-formed month_year: YYYY-MM with the month in 1..12 and the year in
\* 1900..9999.
WellFormedMonthYear(s) ==
    /\ IsYearMonth(s)
    /\ 1 <= MonthOf(s) /\ MonthOf(s) <= 12
    /\ 1900 <= YearOf(s) /\ YearOf(s) <= 9999

\* Claim C2: a filter request whose month_year is supplied and is not a
\* well-formed YYYY-MM (the empty string included) is answered 400.
C2_MalformedMonthRejected ==
    IsFilter =>
      (Supplied(req.month_year) /\ ~WellFormedMonthYear(req.month_year[1])
       => resp.code = 400)

\* The first instant of month m of year y, and of the month after it.
FirstOfMonth(y, m) == <<y, m, 1, 0>>

FirstOfNextMonth(y, m) == IF m = 12 THEN <<y + 1, 1, 1, 0>> ELSE <<y, m + 1, 1, 0>>

InMonth(d, s) ==
    /\ DateLeq(FirstOfMonth(YearOf(s), MonthOf(s)), d)
    /\ DateLess(d, FirstOfNextMonth(YearOf(s), MonthOf(s)))

\* The parameters other than month_year raise no validation error.
OthersValid(r) ==
    /\ Truthy(r.status) => r.status[1] \in STATUSES
    /\ Truthy(r.stage) => r.stage[1] \in STAGES
    /\ r.sort_by \in SORT_FIELDS

\* Claim C3: every well-formed month_year (year 1900..9999, month 1..12) is
\* accepted, and of the rows the other filters keep the answer holds exactly
\* those dated in [first of the month, first of the next month).
C3_MonthWindow ==
    IsFilter =>
      (Supplied(req.month_year) /\ WellFormedMonthYear(req.month_year[1])
       /\ OthersValid(req)
       => /\ resp.code = 200
          /\ Rows(resp.body) =
               { c \in Rows(store) :
                   /\ FilterWhere(c, [req EXCEPT !.month_year = None])
                   /\ InMonth(c.application_date, req.month_year[1]) })

\* Claim C4: the rows of a filter answer are in the order of sort_by (rating
\* and application_date non-increasing, name non-decreasing), and they are a
\* permutation of the rows the filters keep, whichever sort field is chosen.
C4_SortedPermutation ==
    IsFilter /\ resp.code = 200 =>
      /\ \A i \in 1..(Len(resp.body) - 1) :
           /\ req.sort_by = "rating" => resp.body[i].rating >= resp.body[i + 1].rating
           /\ req.sort_by = "name" => StrLeq(resp.body[i].name, resp.body[i + 1].name)
           /\ req.sort_by = "application_date" =>
                DateLeq(resp.body[i + 1].application_date, resp.body[i].application_date)
      /\ \A sb \in SORT_FIELDS :
           \A other \in FilterResponses(store, [req EXCEPT !.sort_by = sb]) :
             /\ other.code = 200
             /\ Len(other.body) = Len(resp.body)
             /\ Rows(other.body) = Rows(resp.body)
             /\ Cardinality(Rows(other.body)) = Len(other.body)

\* A filter answer of two rows sorted by rating that come in the reverse of
\* their order in the table.
C4_Witness ==
    /\ IsFilter /\ resp.code = 200 /\ req.sort_by = "rating"
    /\ Len(resp.body) = 2
    /\ resp.body[1].rating > resp.body[2].rating
    /\ resp.body[1].id > resp.body[2].id

\* t occurs in s as a contiguous substring, letters compared without case.
ContainsIgnoringCase(s, t) == Contains(Lower(s), Lower(t))

\* The search filter as the specification words it.
SearchMatches(c, t) ==
    \/ ContainsIgnoringCase(c.name, t)
    \/ ContainsIgnoringCase(c.email, t)
    \/ ContainsIgnoringCase(c.applied_role, t)

\* A row satisfies every supplied filter.
SatisfiesAll(c, r) ==
    /\ Supplied(r.role) => c.applied_role = r.role[1]
    /\ Supplied(r.status) => c.status = r.status[1]
    /\ Supplied(r.stage) => c.stage = r.stage[1]
    /\ Supplied(r.search) => SearchMatches(c, r.search[1])
    /\ Supplied(r.month_year) => InMonth(c.application_date, r.month_year[1])

\* A valid combination of filters: each supplied value is not empty, status and
\* stage are members of their enumerations, month_year is well formed.
ValidCombination(r) ==
    /\ r.sort_by \in SORT_FIELDS
    /\ Supplied(r.role) => r.role[1] # ""
    /\ Supplied(r.status) => r.status[1] \in STATUSES
    /\ Supplied(r.stage) => r.stage[1] \in STAGES
    /\ Supplied(r.search) => r.search[1] # ""
    /\ Supplied(r.month_year) => WellFormedMonthYear(r.month_year[1])

\* Claim C5: for a valid combination of filters the answer holds exactly the
\* rows of the table that satisfy every supplied filter.
C5_FiltersCompose ==
    IsFilter /\ ValidCombination(req) =>
      /\ resp.code = 200
      /\ Rows(resp.body) = { c \in Rows(store) : SatisfiesAll(c, req) }

\* The extended search as the specification words it; an absent location
\* contains nothing.
ExtendedMatches(c, t) ==
    \/ SearchMatches(c, t)
    \/ ContainsIgnoringCase(c.experience, t)
    \/ ContainsIgnoringCase(c.phone, t)
    \/ ContainsIgnoringCase(c.stage, t)
    \/ ContainsIgnoringCase(c.status, t)
    \/ (c.location # None /\ ContainsIgnoringCase(c.location[1], t))

\* Claim C6: search is containment of the term, without regard to case and
\* with every character of the term a literal: a row passes the search filter of
\* filter_candidates exactly when name, email or applied_role contains the term,
\* and search_candidates returns exactly the rows with a field that contains it.
C6_SearchIsContainment ==
    /\ IsFilter /\ resp.code = 200 /\ Supplied(req.search) =>
         Rows(resp.body) =
           { c \in Rows(store) :
               /\ FilterWhere(c, [req EXCEPT !.search = None])
               /\ SearchMatches(c, req.search[1]) }
    /\ req.op = "search" =>
         Rows(resp.body) = { c \in Rows(store) : ExtendedMatches(c, req.query) }

-----------------------------------------------------------------------------
(* Properties of the endpoints of one record.                              *)

\* The row of a table with an id (the id is the row's).
RowOf(table, candidate_id) ==
    table[CHOOSE i \in 1..Len(table) : table[i].id = candidate_id]

\* This step is a successful update_status.
UpdateDone == req'.op = "update" /\ resp'.code = 200

\* A successful update leaves every other row, the number of rows, and every
\* field of its row other than status, stage and rating as they were.
UpdateFrame ==
    /\ Len(store') = Len(store)
    /\ \A i \in 1..Len(store) :
         IF store[i].id = req'.candidate_id
         THEN [store'[i] EXCEPT !.status = store[i].status,
                                !.stage = store[i].stage,
                                !.rating = store[i].rating] = store[i]
         ELSE store'[i] = store[i]

\* Claim C7, as stated: after a successful update each of status, stage and
\* rating that the body holds (any value, the empty string too) has the given
\* value, each that it lacks has its previous value, and nothing else changes.
C7_UpdateSetsGivenFields ==
    [][UpdateDone =>
         LET old == RowOf(store, req'.candidate_id)
             new == RowOf(store', req'.candidate_id)
             u   == req'.update
         IN  /\ new.status = IF Supplied(u.status) THEN u.status[1] ELSE old.status
             /\ new.stage = IF Supplied(u.stage) THEN u.stage[1] ELSE old.stage
             /\ new.rating = IF Supplied(u.rating) THEN u.rating[1] ELSE old.rating
             /\ UpdateFrame]_vars

\* What update_status does: status and stage take the given value when the body
\* holds a non-empty one and keep their previous value otherwise; rating takes
\* the given value when the body holds one (0.0 too) and keeps its previous
\* value otherwise; the answer is the updated row; nothing else changes.
UpdateSetsNonEmptyFields ==
    [][UpdateDone =>
         LET old == RowOf(store, req'.candidate_id)
             new == RowOf(store', req'.candidate_id)
             u   == req'.update
         IN  /\ new.status = IF Supplied(u.status) /\ u.status[1] # ""
                             THEN u.status[1] ELSE old.status
             /\ new.stage = IF Supplied(u.stage) /\ u.stage[1] # ""
                            THEN u.stage[1] ELSE old.stage
             /\ new.rating = IF Supplied(u.rating) THEN u.rating[1] ELSE old.rating
             /\ resp'.body = <<new>>
             /\ UpdateFrame]_vars

\* Claim C8: get_candidate, update_status and generate_pdf answer an id of no
\* row with 404 (the HTTPException raised by the lookup, also out of the try
\* block of generate_pdf) and leave the table as it was.
C8_UnknownIdNotFound ==
    [][req'.op \in {"get", "update", "pdf"}
       /\ req'.candidate_id \notin Ids(store)
       => /\ resp'.code = 404
          /\ resp'.exc = "HTTPException"
          /\ resp'.detail = "Candidate not found"
          /\ store' = store]_vars

\* generate_pdf has answered 404 for an id that no row of a non-empty table has.
C8_Witness ==
    /\ req.op = "pdf"
    /\ store # <<>>
    /\ req.candidate_id \notin Ids(store)
    /\ resp.code = 404

\* Claim C9: generate_pdf answers the id of a row with a successful document
\* whose attachment is named by the row's name, spaces replaced by underscores,
\* then _<id>.pdf.
C9_PdfOfExistingCandidate ==
    req.op = "pdf" /\ req.candidate_id \in Ids(store) =>
      /\ resp.code = 200
      /\ resp.filename =
           Replace(RowOf(store, req.candidate_id).name, " ", "_")
           \o "_" \o ToString(req.candidate_id) \o ".pdf"

\* The link map of a row holds a value of another shape than a string.
OddLinkMap(c) ==
    /\ c.urls # None
    /\ \E i \in 1..Len(c.urls[1].doc) : c.urls[1].doc[i][2].t # "str"

\* Claim C10: the content of an optional sub-document never makes generate_pdf
\* fail: a row whose link map is valid JSON of another shape than expected is
\* still answered with a successful document.
C10_PdfToleratesSubDocuments ==
    req.op = "pdf" /\ req.candidate_id \in Ids(store)
    /\ OddLinkMap(RowOf(store, req.candidate_id))
    => resp.code = 200

-----------------------------------------------------------------------------
(* Invariants of the stored rows.                                          *)

\* The number of entries of the link map of a row, 0 when the row has none.
LinkCount(c) == IF c.urls = None THEN 0 ELSE Len(JsonLoads(c.urls[1]).doc)

\* The number of the three link fields a descriptor has.
LinkFields(d) ==
    (IF d.resume_url # None THEN 1 ELSE 0)
    + (IF d.cover_letter_url # None THEN 1 ELSE 0)
    + (IF d.project_url # None THEN 1 ELSE 0)

\* Claim C12: the attachments of every stored row is the number of entries of
\* its link map (0 without one), the rows a successful import has just added
\* count the link fields their descriptors have, and so do the candidates of
\* the demo list.
C12_AttachmentsCountLinks ==
    /\ \A i \in 1..Len(store) : store[i].attachments = LinkCount(store[i])
    /\ \A i \in 1..Len(SeedCandidates) :
         SeedCandidates[i].attachments = LinkCount(SeedCandidates[i])
    /\ req.op = "import" /\ resp.code = 200 =>
         \A i \in 1..Len(req.batch) :
           store[Len(store) - Len(req.batch) + i].attachments
             = LinkFields(req.batch[i])

\* An update has been answered on a table that holds rows with two links, with
\* one link, and with none.
C12_Witness ==
    /\ req.op = "update"
    /\ resp.code = 200
    /\ \E i, j \in 1..Len(store) :
         /\ store[i].attachments = 2
         /\ LinkCount(store[i]) = 2
         /\ store[j].attachments = 0
         /\ store[j].urls = None

\* Claim C14: the stage of every stored row is one of STAGES and its status is
\* one of STATUSES.
C14_StageAndStatusEnumerated ==
    \A i \in 1..Len(store) :
      store[i].stage \in STAGES /\ store[i].status \in STATUSES

\* Claim C15: the rating of every stored row lies in 0.0 .. 5.0 (0 .. 50
\* tenths).
C15_RatingInRange ==
    \A i \in 1..Len(store) : 0 <= store[i].rating /\ store[i].rating <= 50

\* What the claims about the demo data compare of a row.
DemoView(c) ==
    [email |-> c.email, status |-> c.status, stage |-> c.stage,
     rating |-> c.rating, attachments |-> c.attachments]

\* Claim C16: seed_data succeeds on any table and leaves exactly the six demo
\* candidates in it.
C16_SeedReplacesStore ==
    req.op = "seed" =>
      /\ resp.code = 200
      /\ Len(store) = Len(SeedCandidates)
      /\ { DemoView(store[i]) : i \in 1..Len(store) }
           = { DemoView(SeedCandidates[i]) : i \in 1..Len(SeedCandidates) }

\* The rows of `after` are those of `before` but for the status, stage and
\* rating of the row with that id.
OnlyReviewFieldsChanged(before, after, candidate_id) ==
    /\ Len(after) = Len(before)
    /\ \A i \in 1..Len(before) :
         IF before[i].id = candidate_id
         THEN after[i] = [before[i] EXCEPT !.status = after[i].status,
                                           !.stage = after[i].stage,
                                           !.rating = after[i].rating]
         ELSE after[i] = before[i]

\* Claim C18: the five read endpoints never change the table, a request
\* answered 400 or 404 never changes it, and a step that changes it is a
\* successful import that appends rows, a successful update that changes the
\* status, stage or rating of the one row it names, or a seed.
C18_FrameOfTheStore ==
    [][/\ req'.op \in {"list", "filter", "search", "get", "pdf"} => store' = store
       /\ resp'.code \in {400, 404} => store' = store
       /\ store' # store =>
            /\ resp'.code = 200
            /\ \/ /\ req'.op = "import"
                  /\ Len(store') = Len(store) + Len(req'.batch)
                  /\ SubSeq(store', 1, Len(store)) = store
               \/ /\ req'.op = "update"
                  /\ OnlyReviewFieldsChanged(store, store', req'.candidate_id)
               \/ req'.op = "seed"]_vars

\* A filter request has been refused with 400 on a table that holds a row
\* changed by an earlier update.
C18_Witness ==
    /\ req.op = "filter"
    /\ resp.code = 400
    /\ \E i \in 1..Len(store) : store[i].rating = 60

-----------------------------------------------------------------------------
(* Requests in progress side by side.                                      *)

Emails(rows) == { rows[i].email : i \in 1..Len(rows) }

\* A file import_candidates can load into a table: every descriptor has the
\* required fields and no email comes twice, in the file or with the table.
Loadable(batch, table) ==
    /\ \A i \in 1..Len(batch) : MissingKey(batch[i]) = ""
    /\ \A i, j \in 1..Len(batch) : batch[i].email = batch[j].email => i = j
    /\ \A i \in 1..Len(batch) : batch[i].email[1] \notin Emails(table)

\* Claim C11: every step of an import request leaves the table as it is or, in
\* one step, adds one row for every descriptor of its file; a file with a
\* descriptor short of a required field, with an email twice, or with an email
\* the table has already never changes the table.
C11_ImportAllOrNothing ==
    [][\A s \in Slots :
         sessions[s].op = "import" /\ sessions'[s] # sessions[s] =>
           LET batch == sessions[s].batch
           IN  /\ \/ store' = store /\ sessions'[s].resp.code # 200
                  \/ /\ sessions'[s].resp.code = 200
                     /\ Len(store') = Len(store) + Len(batch)
                     /\ SubSeq(store', 1, Len(store)) = store
                     /\ \A i \in 1..Len(batch) :
                          store'[Len(store) + i].email = batch[i].email[1]
               /\ ~Loadable(batch, store) => store' = store]_vars

\* An import of a file of two descriptors with the same email has failed on the
\* second INSERT, and the table has none of its rows.
C11_Witness ==
    \E s \in Slots :
      /\ sessions[s].op = "import"
      /\ sessions[s].pc = "done"
      /\ sessions[s].resp.exc = "IntegrityError"
      /\ Len(sessions[s].batch) = 2
      /\ sessions[s].batch[1].email[1] \notin Emails(store)

\* Claim C13: no two rows of the table have the same email and no two have the
\* same id.
C13_EmailAndIdUnique ==
    \A i, j \in 1..Len(store) :
      (store[i].email = store[j].email \/ store[i].id = store[j].id) => i = j

\* Two imports of the same email ran side by side: one is committed, the other
\* was refused.
C13_Witness ==
    \E s, t \in Slots :
      /\ sessions[s].op = "import" /\ sessions[t].op = "import"
      /\ sessions[s].pc = "done" /\ sessions[t].pc = "done"
      /\ sessions[s].resp.code = 200
      /\ sessions[t].resp.exc = "IntegrityError"
      /\ sessions[s].batch[1].email = sessions[t].batch[1].email
      /\ Len(store) = 1

\* Claim C17: when two updates of the same row are in progress, the one that
\* commits is answered 200 and leaves each field it supplied at the value it
\* gave and the other fields as they were.
C17_LastCommitWins ==
    [][\A s \in Slots :
         /\ sessions[s].pc = "commit"
         /\ sessions'[s].pc = "done"
         /\ \E t \in Slots \ {s} :
              /\ sessions[t].op = "update"
              /\ sessions[t].candidate_id = sessions[s].candidate_id
         => LET id     == sessions[s].candidate_id
                update == sessions[s].update
                before == RowOf(store, id)
                after  == RowOf(store', id)
            IN  /\ sessions'[s].resp.code = 200
                /\ \A f \in {"status", "stage", "rating"} :
                     after[f] = IF update[f] # None THEN update[f][1]
                                ELSE before[f]]_vars

\* Claim C19: a session is open only while its request is being served and is
\* closed once, a request that fails leaves the table as it was, and every
\* session that is opened is closed in the end, however its handler ends.
C19_SessionAlwaysClosed ==
    /\ [](\A s \in Slots :
            /\ sessions[s].closes <= 1
            /\ sessions[s].open => sessions[s].closes = 0
            /\ sessions[s].pc = "idle" =>
                 /\ ~sessions[s].open
                 /\ ~sessions[s].lock
                 /\ sessions[s].pending = <<>>)
    /\ [][\A s \in Slots :
            sessions'[s].pc = "done" /\ sessions[s].pc # "done"
            /\ sessions'[s].resp.code # 200 => store' = store]_vars
    /\ \A s \in Slots :
         sessions[s].open ~> (~sessions[s].open /\ sessions[s].closes = 1)

\* An import has raised KeyError with its session still open, next to a slot
\* whose last session was closed.
C19_Witness ==
    \E s, t \in Slots :
      /\ sessions[s].pc = "done"
      /\ sessions[s].resp.exc = "KeyError"
      /\ sessions[s].open
      /\ sessions[s].pending # <<>>
      /\ sessions[t].pc = "idle"
      /\ sessions[t].closes = 1

-----------------------------------------------------------------------------
(* The optional sub-documents of generate_pdf.                             *)

SubDocuments == {"urls", "skills", "education", "experience_details", "projects"}

FailsToParse(text) == text # None /\ ~JsonLoads(text[1]).ok

-----------------------------------------------------------------------------
(* The composed document.                                                  *)

\* The handler has composed a document: the parsed sub-documents and the
\* sections are in the body of its answer.
Composed == req.op = "subdocs" /\ resp.code = 200 /\ Len(resp.body) = 2

StartsAt(s, i, t) == i + Len(t) - 1 <= Len(s) /\ SubSeq(s, i, i + Len(t) - 1) = t

\* A hyperlink target without a raw '<' or '>' and with every '&' the start of
\* one of the three escaped forms.
EscapedTarget(href) ==
    /\ ~Contains(href, "<")
    /\ ~Contains(href, ">")
    /\ \A i \in 1..Len(href) :
         SubSeq(href, i, i) = "&" =>
           \/ StartsAt(href, i, "&amp;")
           \/ StartsAt(href, i, "&lt;")
           \/ StartsAt(href, i, "&gt;")

OptionalSections ==
    << <<"Skills", "skills">>, <<"Education", "education">>,
       <<"Experience Details", "experience_details">>,
       <<"Projects", "projects">>, <<"Attachments", "urls">> >>

\* The headings, from the k-th on, of the optional sections whose parsed data
\* is not empty.
RECURSIVE PresentFrom(_, _)
PresentFrom(parsed, k) ==
    IF k > Len(OptionalSections) THEN <<>>
    ELSE (IF parsed[OptionalSections[k][2]] # <<>>
          THEN <<OptionalSections[k][1]>> ELSE <<>>)
         \o PresentFrom(parsed, k + 1)

=============================================================================
